---- MODULE Spec2Model ----
(***************************************************************************)
(* samira-rs: two blocking REST clients.                                   *)
(*   RiotApi  (src/src/riot_api.rs)  - token-authenticated game service    *)
(*   UtilsApi (src/src/utils_api.rs) - static content CDN (Data Dragon)    *)
(* Every public method builds one URL, issues one GET with ureq, reads the *)
(* body as a serde_json::Value, decodes it with serde and wraps the result *)
(* in an Option (or a Vec).  The model keeps the two clients, and the      *)
(* record of the last public call: its inputs, the requests it issued, the *)
(* answers the upstream gave, and how it ended (a value, or a panic that   *)
(* unwinds into the caller).                                               *)
(***************************************************************************)
EXTENDS Integers, Sequences, FiniteSets, TLC

VARIABLES riot, utils, call

vars == <<riot, utils, call>>

(***************************************************************************)
(* Rust's Option and Result                                                *)
(***************************************************************************)
None == [some |-> FALSE]
Some(x) == [some |-> TRUE, v |-> x]

Ok(x) == [ok |-> TRUE, v |-> x]
Err == [ok |-> FALSE]

(***************************************************************************)
(* serde_json::Value.  An object is a function from its keys to values, an *)
(* array a sequence.  A number keeps whether it has a fractional part.     *)
(***************************************************************************)
JNull == [t |-> "null"]
JStr(s) == [t |-> "str", v |-> s]
JNum(n) == [t |-> "num", v |-> n, frac |-> FALSE]
JFrac(n) == [t |-> "num", v |-> n, frac |-> TRUE]
JBool(b) == [t |-> "bool", v |-> b]
JArr(s) == [t |-> "arr", v |-> s]
JObj(f) == [t |-> "obj", v |-> f]

(***************************************************************************)
(* The Rust types the records are made of.                                 *)
(***************************************************************************)
TString == [k |-> "String"]
TI32 == [k |-> "i32"]
TI64 == [k |-> "i64"]
TF64 == [k |-> "f64"]
TBool == [k |-> "bool"]
TVec(t) == [k |-> "Vec", of |-> t]
TOption(t) == [k |-> "Option", of |-> t]
TStruct(n) == [k |-> "struct", name |-> n]

\* One field of a #[derive(Deserialize)] struct: its name, its serde aliases.
Field(n, ty) == [name |-> n, alias |-> {}, ty |-> ty]
Aliased(n, a, ty) == [name |-> n, alias |-> {a}, ty |-> ty]

Summoner ==
    << Aliased("account_id", "accountId", TString),
       Aliased("profile_icon_id", "profileIconId", TI32),
       Aliased("revision_date", "revisionDate", TI64),
       Field("name", TString),
       Field("id", TString),
       Field("puuid", TString),
       Aliased("summoner_level", "summonerLevel", TI64) >>

ChampionInfo ==
    << Aliased("max_new_player_level", "maxNewPlayerLevel", TI32),
       Aliased("free_champions_ids_for_new_players",
               "freeChampionIdsForNewPlayers", TVec(TI32)),
       Aliased("free_champion_ids", "freeChampionIds", TVec(TI32)) >>

Image ==
    << Field("full", TString), Field("sprite", TString), Field("group", TString),
       Field("x", TI32), Field("y", TI32), Field("w", TI32), Field("h", TI32) >>

Passive ==
    << Field("name", TString), Field("description", TString),
       Field("image", TStruct("Image")) >>

LevelTip ==
    << Field("label", TVec(TString)), Field("effect", TVec(TString)) >>

Spell ==
    << Field("id", TString), Field("name", TString),
       Field("description", TString), Field("tooltip", TString),
       Field("leveltip", TStruct("LevelTip")), Field("maxrank", TI32),
       Field("cooldown", TVec(TF64)),
       Aliased("cooldown_burn", "cooldownBurn", TString),
       Field("cost", TVec(TF64)),
       Aliased("cost_burn", "costBurn", TString),
       Field("effect", TVec(TOption(TVec(TF64)))),
       Aliased("effect_burn", "effectBurn", TVec(TOption(TString))),
       Aliased("cost_type", "costType", TString),
       Field("maxammo", TString), Field("range", TVec(TI64)),
       Aliased("range_burn", "rangeBurn", TString),
       Field("image", TStruct("Image")), Field("resource", TString) >>

Stats ==
    << Field("hp", TF64), Field("hpperlevel", TF64), Field("mp", TF64),
       Field("mpperlevel", TF64), Field("movespeed", TF64),
       Field("armor", TF64), Field("armorperlevel", TF64),
       Field("spellblock", TF64), Field("spellblockperlevel", TF64),
       Field("attackrange", TF64), Field("hpregen", TF64),
       Field("hpregenperlevel", TF64), Field("mpregen", TF64),
       Field("mpregenperlevel", TF64), Field("crit", TF64),
       Field("critperlevel", TF64), Field("attackdamage", TF64),
       Field("attackdamageperlevel", TF64),
       Field("attackspeedperlevel", TF64), Field("attackspeed", TF64) >>

Info ==
    << Field("attack", TI32), Field("defense", TI32), Field("magic", TI32),
       Field("difficulty", TI32) >>

Skin ==
    << Field("id", TString), Field("num", TI32), Field("name", TString),
       Field("chromas", TBool) >>

Champion ==
    << Field("id", TString), Field("key", TString), Field("name", TString),
       Field("title", TString), Field("image", TStruct("Image")),
       Field("skins", TVec(TStruct("Skin"))), Field("lore", TString),
       Field("blurb", TString), Field("allytips", TVec(TString)),
       Field("enemytips", TVec(TString)), Field("tags", TVec(TString)),
       Field("partype", TString), Field("info", TStruct("Info")),
       Field("stats", TStruct("Stats")), Field("spells", TVec(TStruct("Spell"))),
       Field("passive", TStruct("Passive")) >>

RuneData ==
    << Field("id", TI32), Field("key", TString), Field("icon", TString),
       Field("name", TString),
       Aliased("short_desc", "shortDesc", TString),
       Aliased("long_desc", "longDesc", TString) >>

RuneSlot ==
    << Field("runes", TVec(TStruct("RuneData"))) >>

Rune ==
    << Field("id", TI32), Field("key", TString), Field("icon", TString),
       Field("name", TString), Field("slots", TVec(TStruct("RuneSlot"))) >>

StructFields(n) ==
    CASE n = "Summoner" -> Summoner
      [] n = "ChampionInfo" -> ChampionInfo
      [] n = "Image" -> Image
      [] n = "Passive" -> Passive
      [] n = "LevelTip" -> LevelTip
      [] n = "Spell" -> Spell
      [] n = "Stats" -> Stats
      [] n = "Info" -> Info
      [] n = "Skin" -> Skin
      [] n = "Champion" -> Champion
      [] n = "RuneData" -> RuneData
      [] n = "RuneSlot" -> RuneSlot
      [] n = "Rune" -> Rune

(***************************************************************************)
(* serde_json::from_value::<T>(value): all or nothing.                     *)
(*   String, bool   only from a JSON string, bool                          *)
(*   i32, i64       only from a JSON number without fractional part        *)
(*   f64            from any JSON number                                   *)
(*   Vec<T>         only from an array, every element decoding             *)
(*   Option<T>      null is None, anything else must decode as T           *)
(*   struct         from an object: every field present once under its     *)
(*                  name or alias (an absent Option field is None),        *)
(*                  unknown keys ignored; or from an array holding         *)
(*                  exactly the fields in declaration order                *)
(***************************************************************************)
FieldIndex(fields, n) == CHOOSE i \in 1..Len(fields) : fields[i].name = n

FieldNames(fields) == {fields[i].name : i \in 1..Len(fields)}

FieldKeys(f) == {f.name} \cup f.alias

RECURSIVE from_value(_, _)
from_field(f, obj) ==
    LET present == FieldKeys(f) \cap DOMAIN obj
    IN  IF Cardinality(present) > 1 THEN Err
        ELSE IF present = {}
             THEN IF f.ty.k = "Option" THEN Ok(None) ELSE Err
             ELSE from_value(f.ty, obj[CHOOSE key \in present : TRUE])

from_value(ty, j) ==
    CASE ty.k = "String" -> IF j.t = "str" THEN Ok(j.v) ELSE Err
      [] ty.k = "bool" -> IF j.t = "bool" THEN Ok(j.v) ELSE Err
      [] ty.k \in {"i32", "i64"} ->
            IF j.t = "num" /\ ~j.frac THEN Ok(j.v) ELSE Err
      [] ty.k = "f64" ->
            IF j.t = "num" THEN Ok([n |-> j.v, frac |-> j.frac]) ELSE Err
      [] ty.k = "Vec" ->
            IF j.t # "arr" THEN Err
            ELSE LET rs == [i \in 1..Len(j.v) |-> from_value(ty.of, j.v[i])]
                 IN  IF \A i \in 1..Len(j.v) : rs[i].ok
                     THEN Ok([i \in 1..Len(j.v) |-> rs[i].v])
                     ELSE Err
      [] ty.k = "Option" ->
            IF j.t = "null" THEN Ok(None)
            ELSE LET r == from_value(ty.of, j)
                 IN  IF r.ok THEN Ok(Some(r.v)) ELSE Err
      [] ty.k = "struct" ->
            LET fields == StructFields(ty.name)
            IN  IF j.t = "obj"
                THEN LET rs == [i \in 1..Len(fields) |-> from_field(fields[i], j.v)]
                     IN  IF \A i \in 1..Len(fields) : rs[i].ok
                         THEN Ok([n \in FieldNames(fields) |->
                                    rs[FieldIndex(fields, n)].v])
                         ELSE Err
                ELSE IF j.t = "arr"
                THEN LET rs == [i \in 1..Len(j.v) |->
                                  IF i <= Len(fields)
                                  THEN from_value(fields[i].ty, j.v[i])
                                  ELSE Err]
                     IN  IF Len(j.v) = Len(fields)
                            /\ \A i \in 1..Len(j.v) : rs[i].ok
                         THEN Ok([n \in FieldNames(fields) |->
                                    rs[FieldIndex(fields, n)].v])
                         ELSE Err
                ELSE Err

(***************************************************************************)
(* How a function ends: a private request function returns Ok or Err, or   *)
(* panics (unwrap / expect on a failure); a public method returns a value  *)
(* or is unwound by the panic of the function it called.                   *)
(***************************************************************************)
ROk(x) == [st |-> "ok", v |-> x]
RErr == [st |-> "err"]
Panic == [st |-> "panic"]

Returned(x) == [st |-> "returned", result |-> x]
Unwound == [st |-> "panic"]

\* Result::unwrap on the result of serde_json::from_value, wrapped in Ok(..).
OkUnwrap(d) == IF d.ok THEN ROk(d.v) ELSE Panic

(***************************************************************************)
(* ureq.  A GET ends in a transport error, in a response with an error     *)
(* status (both are Err of call()), or in a response whose body is JSON    *)
(* text or is not (into_json() is Err on a body that is not JSON).         *)
(***************************************************************************)
Transport == [kind |-> "transport"]
Status(code) == [kind |-> "status", code |-> code]
Body(j) == [kind |-> "ok", json |-> TRUE, value |-> j]
NotJson == [kind |-> "ok", json |-> FALSE]

\* ureq::get(..).call()?
http_call(resp) == IF resp.kind = "ok" THEN Ok(resp) ELSE Err

\* ureq::get(..).call()?.into_json()?
into_json(resp) ==
    IF ~http_call(resp).ok THEN Err
    ELSE IF resp.json THEN Ok(resp.value) ELSE Err

(***************************************************************************)
(* URLs.  format! pastes the caller's text into the path, so a text with a *)
(* '/' in it spans several path segments.                                  *)
(***************************************************************************)
Segments(text) ==
    IF text = "by-name/Faker" THEN <<"by-name", "Faker">> ELSE <<text>>

PROTOCOL == "https"

get_platform_url(platform) ==
    [protocol |-> PROTOCOL,
     host |-> << CASE platform = "BR1" -> "br1"
                   [] platform = "EUN1" -> "eun1"
                   [] platform = "EUW1" -> "euw1"
                   [] platform = "JP1" -> "jp1"
                   [] platform = "KR" -> "kr"
                   [] platform = "LA1" -> "la1"
                   [] platform = "LA2" -> "la2"
                   [] platform = "NA1" -> "na1"
                   [] platform = "OC1" -> "oc1"
                   [] platform = "TR1" -> "tr1"
                   [] platform = "RU" -> "ru",
                 "api", "riotgames", "com" >>]

\* ureq::get(url).set("X-Riot-Token", token)
RiotRequest(server, path, token) ==
    [protocol |-> server.protocol, host |-> server.host, path |-> path,
     token |-> Some(token)]

(***************************************************************************)
(* The game service, as its callers see it (spec section 6).  Each shard   *)
(* knows its own summoners; a request without a valid token is refused, a  *)
(* request for an identifier the shard does not know under the queried     *)
(* field is answered 404.                                                  *)
(***************************************************************************)
ValidTokens == {"RGAPI-valid"}

SummonerJson(account, name, id, puuid, level) ==
    JObj([accountId |-> JStr(account), profileIconId |-> JNum(7),
          revisionDate |-> JNum(1656), name |-> JStr(name), id |-> JStr(id),
          puuid |-> JStr(puuid), summonerLevel |-> JNum(level)])

ShardSummoners(host) ==
    CASE host[1] = "euw1" ->
            << SummonerJson("acc-rqndom", "RqndomHax", "id-rqndom", "pu-rqndom", 30),
               SummonerJson("acc-faker", "Faker", "id-faker", "pu-faker", 99) >>
      [] host[1] = "na1" ->
            << SummonerJson("acc-other", "Faker", "id-other", "pu-other", 5) >>
      [] OTHER -> << >>

RotationJson(host) ==
    JObj([maxNewPlayerLevel |-> JNum(10),
          freeChampionIdsForNewPlayers |-> JArr(<<JNum(18), JNum(81)>>),
          freeChampionIds |-> JArr(IF host[1] = "euw1"
                                   THEN <<JNum(1), JNum(360)>>
                                   ELSE <<JNum(2)>>)])

\* The JSON key the service stores each lookup field under.
UpstreamKey(route) ==
    CASE route = "by-account" -> "accountId"
      [] route = "by-name" -> "name"
      [] route = "by-puuid" -> "puuid"
      [] route = "summoners" -> "id"

FindSummoner(host, route, ident) ==
    LET db == ShardSummoners(host)
        hits == {i \in 1..Len(db) : db[i].v[UpstreamKey(route)] = JStr(ident)}
    IN  IF hits = {} THEN Status(404)
        ELSE Body(db[CHOOSE i \in hits : \A k \in hits : i <= k])

RiotServe(req) ==
    LET p == req.path
    IN  IF ~req.token.some \/ req.token.v \notin ValidTokens THEN Status(403)
        ELSE IF p = <<"lol", "status", "v4", "platform-data">>
             THEN Body(JObj([id |-> JStr(req.host[1])]))
        ELSE IF p = <<"lol", "platform", "v3", "champion-rotations">>
             THEN Body(RotationJson(req.host))
        ELSE IF Len(p) = 5 /\ SubSeq(p, 1, 4) = <<"lol", "summoner", "v4", "summoners">>
             THEN FindSummoner(req.host, "summoners", p[5])
        ELSE IF Len(p) = 6 /\ SubSeq(p, 1, 4) = <<"lol", "summoner", "v4", "summoners">>
                /\ p[5] \in {"by-account", "by-name", "by-puuid"}
             THEN FindSummoner(req.host, p[5], p[6])
        ELSE Status(404)

\* What can come back for one request: the service's answer, a connection
\* that fails, or a 2xx answer whose body is not the promised document
\* (not JSON at all, a document with a field missing, one with a field of
\* the wrong type).
Weather == {"up", "down", "notjson", "missing", "mistyped"}

Answer(honest, weather) ==
    CASE weather = "up" -> honest
      [] weather = "down" -> Transport
      [] weather = "notjson" -> NotJson
      [] weather = "missing" -> Body(JObj([name |-> JStr("RqndomHax"),
                                           maxNewPlayerLevel |-> JNum(10)]))
      [] weather = "mistyped" ->
            Body(JObj([accountId |-> JStr("acc-rqndom"), profileIconId |-> JNum(7),
                       revisionDate |-> JNum(1656), name |-> JStr("RqndomHax"),
                       id |-> JStr("id-rqndom"), puuid |-> JNum(0),
                       summonerLevel |-> JStr("30"),
                       maxNewPlayerLevel |-> JFrac(10),
                       freeChampionIdsForNewPlayers |-> JArr(<< >>),
                       freeChampionIds |-> JArr(<< >>)]))

RiotGet(req, weather) == Answer(RiotServe(req), weather)

\* The weathers the filter-driven lookup is tried under: one of each kind
\* of ending of a single lookup (a record or a 404, an Err, a panic).
FilterWeather == {"up", "down", "missing"}

(***************************************************************************)
(* riot_api.rs: the private request functions.  Each builds its URL, sends *)
(* one GET carrying the token, reads the body as JSON (? returns Err on a  *)
(* failed call or a body that is not JSON) and unwraps the decoded record. *)
(***************************************************************************)
SummonersPath == <<"lol", "summoner", "v4", "summoners">>

get_champion_rotations_request(token, platform) ==
    RiotRequest(get_platform_url(platform),
                <<"lol", "platform", "v3", "champion-rotations">>, token)

get_summoner_request(token, platform, encrypted_summoner_id) ==
    RiotRequest(get_platform_url(platform),
                SummonersPath \o Segments(encrypted_summoner_id), token)

\* get_summoner_by_account, were its URL pasted from the by-name lookup.
get_summoner_by_account_request_by_name(token, platform, encrypted_account_id) ==
    RiotRequest(get_platform_url(platform),
                SummonersPath \o <<"by-name">> \o Segments(encrypted_account_id),
                token)

get_summoner_by_account_request(token, platform, encrypted_account_id) ==
    RiotRequest(get_platform_url(platform),
                SummonersPath \o <<"by-account">> \o Segments(encrypted_account_id),
                token)

get_summoner_by_name_request(token, platform, summoner_name) ==
    RiotRequest(get_platform_url(platform),
                SummonersPath \o <<"by-name">> \o Segments(summoner_name), token)

get_summoner_by_puuid_request(token, platform, puuid) ==
    RiotRequest(get_platform_url(platform),
                SummonersPath \o <<"by-puuid">> \o Segments(puuid), token)

check_token_request(token) ==
    RiotRequest(get_platform_url("NA1"),
                <<"lol", "status", "v4", "platform-data">>, token)

\* let response = ..call()?.into_json()?; Ok(serde_json::from_value(response).unwrap())
Decoded(ty, response) ==
    IF ~response.ok THEN RErr ELSE OkUnwrap(from_value(ty, response.v))

get_champion_rotations(token, platform, weather) ==
    Decoded(TStruct("ChampionInfo"),
            into_json(RiotGet(get_champion_rotations_request(token, platform),
                              weather)))

get_summoner(token, platform, encrypted_summoner_id, weather) ==
    Decoded(TStruct("Summoner"),
            into_json(RiotGet(get_summoner_request(token, platform,
                                                   encrypted_summoner_id),
                              weather)))

get_summoner_by_account(token, platform, encrypted_account_id, weather) ==
    Decoded(TStruct("Summoner"),
            into_json(RiotGet(get_summoner_by_account_request(token, platform,
                                                              encrypted_account_id),
                              weather)))

get_summoner_by_name(token, platform, summoner_name, weather) ==
    Decoded(TStruct("Summoner"),
            into_json(RiotGet(get_summoner_by_name_request(token, platform,
                                                           summoner_name),
                              weather)))

get_summoner_by_puuid(token, platform, puuid, weather) ==
    Decoded(TStruct("Summoner"),
            into_json(RiotGet(get_summoner_by_puuid_request(token, platform, puuid),
                              weather)))

\* The body of the answer is never read: any answer call() accepts is Ok(true).
Checked(called) == IF ~called.ok THEN RErr ELSE ROk(TRUE)

\* check_token, were it to ignore how the probe ended.
check_token_unchecked(token, weather) == ROk(TRUE)

check_token(token, weather) ==
    Checked(http_call(RiotGet(check_token_request(token), weather)))

(***************************************************************************)
(* riot_api.rs: impl RiotApi.                                              *)
(***************************************************************************)
\* if result.is_ok() { return Some(result.unwrap()); } None
SomeIfOk(result) ==
    IF result.st = "panic" THEN Unwound
    ELSE IF result.st = "ok" THEN Returned(Some(result.v))
    ELSE Returned(None)

\* if result.is_ok() && result.unwrap() == true { Some(RiotApi { token }) } else { None }
ClientIfValid(token, result) ==
    IF result.st = "panic" THEN Unwound
    ELSE IF result.st = "ok" /\ result.v = TRUE
         THEN Returned(Some([token |-> token]))
         ELSE Returned(None)

RiotApi_new(token, weather) == ClientIfValid(token, check_token(token, weather))

RiotApi_new_unchecked(token) == Returned([token |-> token])

RiotApi_get_champion_rotations(self, platform, weather) ==
    SomeIfOk(get_champion_rotations(self.token, platform, weather))

RiotApi_get_summoner_by_puuid(self, platform, puuid, weather) ==
    SomeIfOk(get_summoner_by_puuid(self.token, platform, puuid, weather))

RiotApi_get_summoner_by_name(self, platform, summoner_name, weather) ==
    SomeIfOk(get_summoner_by_name(self.token, platform, summoner_name, weather))

RiotApi_get_summoner_by_account(self, platform, encrypted_account_id, weather) ==
    SomeIfOk(get_summoner_by_account(self.token, platform, encrypted_account_id,
                                     weather))

RiotApi_get_summoner(self, platform, encrypted_summoner_id, weather) ==
    SomeIfOk(get_summoner(self.token, platform, encrypted_summoner_id, weather))

(***************************************************************************)
(* The lookup driven by a SummonerFilter (filters/summoner_filter.rs holds *)
(* the filter; the method that walks it is described by the design, 4.1    *)
(* and 9): the supplied fields are tried in the order account_id, name,    *)
(* id, puuid; a field whose lookup finds nothing is cleared and the method *)
(* calls itself with what is left.  tried lists the fields attempted.      *)
(***************************************************************************)
FilterOrder == <<"account_id", "name", "id", "puuid">>

FilterLookup(self, platform, field, ident, weather) ==
    CASE field = "account_id" ->
            RiotApi_get_summoner_by_account(self, platform, ident, weather)
      [] field = "name" -> RiotApi_get_summoner_by_name(self, platform, ident, weather)
      [] field = "id" -> RiotApi_get_summoner(self, platform, ident, weather)
      [] field = "puuid" -> RiotApi_get_summoner_by_puuid(self, platform, ident, weather)

FilterRequest(self, platform, field, ident) ==
    CASE field = "account_id" ->
            get_summoner_by_account_request(self.token, platform, ident)
      [] field = "name" -> get_summoner_by_name_request(self.token, platform, ident)
      [] field = "id" -> get_summoner_request(self.token, platform, ident)
      [] field = "puuid" -> get_summoner_by_puuid_request(self.token, platform, ident)

FirstSupplied(filter) ==
    LET supplied == {i \in 1..Len(FilterOrder) : filter[FilterOrder[i]].some}
    IN  IF supplied = {} THEN 0
        ELSE CHOOSE i \in supplied : \A k \in supplied : i <= k

Prepend(field, rest) == [rest EXCEPT !.tried = <<field>> \o @]

RECURSIVE RiotApi_get_summoner_by_filter(_, _, _, _)
FilterStep(self, platform, filter, weathers, field, summoner) ==
    IF summoner.st = "panic" THEN [st |-> "panic", tried |-> <<field>>]
    ELSE IF summoner.result.some
         THEN [st |-> "returned", result |-> summoner.result, tried |-> <<field>>]
         ELSE Prepend(field,
                      RiotApi_get_summoner_by_filter(
                          self, platform, [filter EXCEPT ![field] = None], weathers))

FilterTry(self, platform, filter, weathers, field) ==
    FilterStep(self, platform, filter, weathers, field,
               FilterLookup(self, platform, field, filter[field].v, weathers[field]))

RiotApi_get_summoner_by_filter(self, platform, filter, weathers) ==
    IF FirstSupplied(filter) = 0
    THEN [st |-> "returned", result |-> None, tried |-> << >>]
    ELSE FilterTry(self, platform, filter, weathers,
                   FilterOrder[FirstSupplied(filter)])

(***************************************************************************)
(* The caller.  It is either between two calls (call.op = "idle") or has   *)
(* the outcome of the call it just made in hand; a call that panicked has  *)
(* unwound the caller, which takes no further step.                        *)
(***************************************************************************)
IdleCall == [op |-> "idle"]

Exchange(req, resp) == [req |-> req, resp |-> resp]

CallRecord(op, args, gets, out) ==
    IF out.st = "panic"
    THEN [op |-> op, args |-> args, gets |-> gets, st |-> "panic"]
    ELSE [op |-> op, args |-> args, gets |-> gets, st |-> "returned",
          result |-> out.result]

Tokens == {"RGAPI-valid", "RGAPI-revoked"}

Platforms == {"EUW1", "NA1"}

Idents == {"acc-rqndom", "RqndomHax", "id-rqndom", "pu-rqndom", "Faker",
           "pu-faker", "nobody", "by-name/Faker"}

Filters ==
    [account_id : {None, Some("acc-rqndom"), Some("nobody")},
     name : {None, Some("Faker"), Some("nobody")},
     id : {None, Some("id-rqndom"), Some("nobody")},
     puuid : {None, Some("pu-faker"), Some("nobody")}]

Init ==
    /\ riot = None
    /\ utils = None
    /\ call = IdleCall

RiotConstructed(op, args, gets, out) ==
    /\ call' = CallRecord(op, args, gets, out)
    /\ riot' = IF out.st = "returned" THEN out.result ELSE riot

NewRiot ==
    /\ call.op = "idle"
    /\ \E token \in Tokens, weather \in Weather :
          RiotConstructed("RiotApi::new", [token |-> token],
                          <<Exchange(check_token_request(token),
                                     RiotGet(check_token_request(token), weather))>>,
                          RiotApi_new(token, weather))
    /\ UNCHANGED utils

NewUncheckedRiot ==
    /\ call.op = "idle"
    /\ \E token \in Tokens :
          LET out == RiotApi_new_unchecked(token)
          IN  /\ call' = CallRecord("RiotApi::new_unchecked", [token |-> token],
                                    << >>, out)
              /\ riot' = Some(out.result)
    /\ UNCHANGED utils

GetChampionRotations ==
    /\ call.op = "idle"
    /\ riot.some
    /\ \E platform \in Platforms, weather \in Weather :
          LET req == get_champion_rotations_request(riot.v.token, platform)
          IN  call' = CallRecord("RiotApi::get_champion_rotations",
                                 [platform |-> platform],
                                 <<Exchange(req, RiotGet(req, weather))>>,
                                 RiotApi_get_champion_rotations(riot.v, platform, weather))
    /\ UNCHANGED <<riot, utils>>

GetSummoner ==
    /\ call.op = "idle"
    /\ riot.some
    /\ \E platform \in Platforms, ident \in Idents, weather \in Weather :
          LET req == get_summoner_request(riot.v.token, platform, ident)
          IN  call' = CallRecord("RiotApi::get_summoner",
                                 [platform |-> platform, ident |-> ident],
                                 <<Exchange(req, RiotGet(req, weather))>>,
                                 RiotApi_get_summoner(riot.v, platform, ident, weather))
    /\ UNCHANGED <<riot, utils>>

GetSummonerByAccount ==
    /\ call.op = "idle"
    /\ riot.some
    /\ \E platform \in Platforms, ident \in Idents, weather \in Weather :
          LET req == get_summoner_by_account_request(riot.v.token, platform, ident)
          IN  call' = CallRecord("RiotApi::get_summoner_by_account",
                                 [platform |-> platform, ident |-> ident],
                                 <<Exchange(req, RiotGet(req, weather))>>,
                                 RiotApi_get_summoner_by_account(riot.v, platform,
                                                                 ident, weather))
    /\ UNCHANGED <<riot, utils>>

GetSummonerByName ==
    /\ call.op = "idle"
    /\ riot.some
    /\ \E platform \in Platforms, ident \in Idents, weather \in Weather :
          LET req == get_summoner_by_name_request(riot.v.token, platform, ident)
          IN  call' = CallRecord("RiotApi::get_summoner_by_name",
                                 [platform |-> platform, ident |-> ident],
                                 <<Exchange(req, RiotGet(req, weather))>>,
                                 RiotApi_get_summoner_by_name(riot.v, platform,
                                                              ident, weather))
    /\ UNCHANGED <<riot, utils>>

GetSummonerByPuuid ==
    /\ call.op = "idle"
    /\ riot.some
    /\ \E platform \in Platforms, ident \in Idents, weather \in Weather :
          LET req == get_summoner_by_puuid_request(riot.v.token, platform, ident)
          IN  call' = CallRecord("RiotApi::get_summoner_by_puuid",
                                 [platform |-> platform, ident |-> ident],
                                 <<Exchange(req, RiotGet(req, weather))>>,
                                 RiotApi_get_summoner_by_puuid(riot.v, platform,
                                                               ident, weather))
    /\ UNCHANGED <<riot, utils>>

FilterExchanges(self, platform, filter, weathers, tried) ==
    [i \in 1..Len(tried) |->
        [field |-> tried[i],
         req |-> FilterRequest(self, platform, tried[i], filter[tried[i]].v),
         resp |-> RiotGet(FilterRequest(self, platform, tried[i], filter[tried[i]].v),
                          weathers[tried[i]])]]

\* The weather of a field that is never attempted plays no part: it is "up".
FilterCall(self, platform, filter, weathers, out) ==
    /\ \A field \in DOMAIN weathers :
          (\A i \in 1..Len(out.tried) : out.tried[i] # field) => weathers[field] = "up"
    /\ call' = CallRecord("RiotApi::get_summoner_by_filter",
                          [platform |-> platform, filter |-> filter],
                          FilterExchanges(self, platform, filter, weathers, out.tried),
                          out)

GetSummonerByFilter ==
    /\ call.op = "idle"
    /\ riot.some
    /\ \E platform \in Platforms, filter \in Filters,
          weathers \in [{"account_id", "name", "id", "puuid"} -> FilterWeather] :
          FilterCall(riot.v, platform, filter, weathers,
                     RiotApi_get_summoner_by_filter(riot.v, platform, filter, weathers))
    /\ UNCHANGED <<riot, utils>>

\* The caller has taken the outcome and goes on.
Resume ==
    /\ call.op # "idle"
    /\ call.st = "returned"
    /\ call' = IdleCall
    /\ UNCHANGED <<riot, utils>>

NextRiot ==
    \/ NewRiot
    \/ NewUncheckedRiot
    \/ GetChampionRotations
    \/ GetSummoner
    \/ GetSummonerByAccount
    \/ GetSummonerByName
    \/ GetSummonerByPuuid
    \/ GetSummonerByFilter
    \/ Resume

SpecRiot == Init /\ [][NextRiot]_vars

(***************************************************************************)
(* The static content CDN (spec section 6).  It serves the two manifests   *)
(* and, for every published version and language, the champion document   *)
(* and the rune document.  What the documents hold is the caller's input:  *)
(* shelf is the content of the CDN at the time of the call.                *)
(***************************************************************************)
SERVER == [protocol |-> "https", host |-> <<"ddragon", "leagueoflegends", "com">>]

CdnRequest(path) ==
    [protocol |-> SERVER.protocol, host |-> SERVER.host, path |-> path,
     token |-> None]

PublishedVersions == {"13.1.1", "12.12.1"}

PublishedLanguages == {"en_US", "fr_FR"}

CdnServe(req, shelf) ==
    LET p == req.path
    IN  IF p = <<"api", "versions.json">> THEN Body(shelf.versions)
        ELSE IF p = <<"cdn", "languages.json">> THEN Body(shelf.languages)
        ELSE IF Len(p) = 5 /\ p[1] = "cdn" /\ p[3] = "data"
                /\ p[2] \in PublishedVersions /\ p[4] \in PublishedLanguages
                /\ p[5] \in {"championFull.json", "runesReforged.json"}
             THEN IF p[5] = "championFull.json" THEN Body(shelf.champions)
                  ELSE Body(shelf.runes)
        ELSE Status(403)

CdnWeather == {"up", "down", "busy", "notjson"}

\* cdn: the shelf and the weather one GET meets.
CdnGet(req, cdn) ==
    CASE cdn.weather = "up" -> CdnServe(req, cdn.shelf)
      [] cdn.weather = "down" -> Transport
      [] cdn.weather = "busy" -> Status(503)
      [] cdn.weather = "notjson" -> NotJson

(***************************************************************************)
(* utils_api.rs: the private request functions, each with its one GET.    *)
(***************************************************************************)
get_all_champions_request(version, language) ==
    CdnRequest(<<"cdn">> \o Segments(version) \o <<"data">> \o Segments(language)
               \o <<"championFull.json">>)

get_all_runes_request(version, language) ==
    CdnRequest(<<"cdn">> \o Segments(version) \o <<"data">> \o Segments(language)
               \o <<"runesReforged.json">>)

versions_request == CdnRequest(<<"api", "versions.json">>)

languages_request == CdnRequest(<<"cdn", "languages.json">>)

\* serde_json::Map is a BTreeMap: values() walks the keys in byte order.
KeyOrder == <<"Aatrox", "MonkeyKing", "Samira">>

Values(obj) ==
    LET keys == SelectSeq(KeyOrder, LAMBDA key : key \in DOMAIN obj)
    IN  [i \in 1..Len(keys) |-> obj[keys[i]]]

\* The loop, were it to skip the entries that do not decode.
RECURSIVE PushAllSkipping(_, _)
PushAllSkipping(ty, vals) ==
    IF vals = << >> THEN ROk(<< >>)
    ELSE IF ~from_value(ty, Head(vals)).ok THEN PushAllSkipping(ty, Tail(vals))
    ELSE ROk(<<from_value(ty, Head(vals)).v>> \o PushAllSkipping(ty, Tail(vals)).v)

\* for val in ..  { out.push(serde_json::from_value(val.clone()).unwrap()) }
RECURSIVE PushAll(_, _)
PushAll(ty, vals) ==
    IF vals = << >> THEN ROk(<< >>)
    ELSE LET d == from_value(ty, Head(vals))
         IN  IF ~d.ok THEN Panic
             ELSE LET rest == PushAll(ty, Tail(vals))
                  IN  IF rest.st = "panic" THEN Panic
                      ELSE ROk(<<d.v>> \o rest.v)

\* The body of get_all_champions after its GET.
all_champions_of(response) ==
    IF ~response.ok THEN RErr
    ELSE IF response.v.t # "obj" THEN Panic
    ELSE IF "data" \notin DOMAIN response.v.v THEN Panic
    ELSE IF response.v.v["data"].t # "obj" THEN Panic
    ELSE PushAll(TStruct("Champion"), Values(response.v.v["data"].v))

get_all_champions(version, language, cdn) ==
    all_champions_of(into_json(CdnGet(get_all_champions_request(version, language),
                                      cdn)))

\* The body of get_champion after its GET.
champion_of(name, response) ==
    IF ~response.ok THEN RErr
    ELSE IF response.v.t # "obj" THEN Panic
    ELSE IF "data" \notin DOMAIN response.v.v THEN Panic
    ELSE IF response.v.v["data"].t # "obj" THEN Panic
    ELSE IF name \notin DOMAIN response.v.v["data"].v THEN Panic
    ELSE OkUnwrap(from_value(TStruct("Champion"), response.v.v["data"].v[name]))

get_champion(version, language, name, cdn) ==
    champion_of(name,
                into_json(CdnGet(get_all_champions_request(version, language), cdn)))

\* The body of get_all_runes after its GET.
all_runes_of(response) ==
    IF ~response.ok THEN RErr
    ELSE IF response.v.t # "arr" THEN Panic
    ELSE PushAll(TStruct("Rune"), response.v.v)

get_all_runes(version, language, cdn) ==
    all_runes_of(into_json(CdnGet(get_all_runes_request(version, language), cdn)))

\* The loop of get_rune, were it to keep the first match it meets.
RECURSIVE ScanRunesFirst(_, _, _, _)
ScanRunesFirst(rune, name, i, target) ==
    IF i > Len(rune) THEN ROk(target)
    ELSE IF rune[i].t # "obj" THEN Panic
    ELSE IF "name" \notin DOMAIN rune[i].v THEN Panic
    ELSE IF rune[i].v["name"].t # "str" THEN Panic
    ELSE IF rune[i].v["name"].v = name /\ ~target.some
         THEN ScanRunesFirst(rune, name, i + 1, Some(rune[i]))
         ELSE ScanRunesFirst(rune, name, i + 1, target)

\* The loop of get_rune from element i on: every element must be an object
\* with a string "name"; target is the match kept so far.
RECURSIVE ScanRunes(_, _, _, _)
ScanRunes(rune, name, i, target) ==
    IF i > Len(rune) THEN ROk(target)
    ELSE IF rune[i].t # "obj" THEN Panic
    ELSE IF "name" \notin DOMAIN rune[i].v THEN Panic
    ELSE IF rune[i].v["name"].t # "str" THEN Panic
    ELSE IF rune[i].v["name"].v = name
         THEN ScanRunes(rune, name, i + 1, Some(rune[i]))
         ELSE ScanRunes(rune, name, i + 1, target)

\* Ok(serde_json::from_value(target.unwrap().clone()).unwrap())
rune_target(target) ==
    IF target.st = "panic" THEN Panic
    ELSE IF ~target.v.some THEN Panic
    ELSE OkUnwrap(from_value(TStruct("Rune"), target.v.v))

\* The body of get_rune after its GET.
rune_of(name, response) ==
    IF ~response.ok THEN RErr
    ELSE IF response.v.t # "arr" THEN Panic
    ELSE rune_target(ScanRunes(response.v.v, name, 1, None))

get_rune(version, language, name, cdn) ==
    rune_of(name, into_json(CdnGet(get_all_runes_request(version, language), cdn)))

\* get_latest_version, were it to read the manifest from its other end.
latest_version_of_last(response) ==
    IF ~response.ok THEN RErr
    ELSE IF response.v.t # "arr" THEN Panic
    ELSE IF Len(response.v.v) = 0 THEN Panic
    ELSE IF response.v.v[Len(response.v.v)].t # "str" THEN Panic
    ELSE ROk(response.v.v[Len(response.v.v)].v)

\* The body of get_latest_version after its GET.
latest_version_of(response) ==
    IF ~response.ok THEN RErr
    ELSE IF response.v.t # "arr" THEN Panic
    ELSE IF Len(response.v.v) = 0 THEN Panic
    ELSE IF response.v.v[1].t # "str" THEN Panic
    ELSE ROk(response.v.v[1].v)

get_latest_version(cdn) == latest_version_of(into_json(CdnGet(versions_request, cdn)))

\* Vec<Value>::contains(&Value::String(text))
Contains(array, text) ==
    \E i \in 1..Len(array) : array[i].t = "str" /\ array[i].v = text

\* The body of is_version_available and of is_language_available after the GET.
available_in(text, response) ==
    IF ~response.ok THEN RErr
    ELSE IF response.v.t # "arr" THEN Panic
    ELSE ROk(Contains(response.v.v, text))

is_version_available(version, cdn) ==
    available_in(version, into_json(CdnGet(versions_request, cdn)))

is_language_available(language, cdn) ==
    available_in(language, into_json(CdnGet(languages_request, cdn)))

(***************************************************************************)
(* utils_api.rs: impl UtilsApi, impl Default for UtilsApi.                 *)
(***************************************************************************)
UtilsApi_default == [version |-> "12.12.1", language |-> "en_US"]

\* Both probes are sent before either result is looked at; a probe that
\* panics unwinds before the next one is sent.
latest_if(language, language_result, version) ==
    IF language_result.st = "panic" THEN Unwound
    ELSE IF version.st = "panic" THEN Unwound
    ELSE IF version.st = "ok"
            /\ (language_result.st = "ok" /\ language_result.v = TRUE)
         THEN Returned(Some([version |-> version.v, language |-> language]))
         ELSE Returned(None)

UtilsApi_latest(language, cdnLanguages, cdnVersions) ==
    latest_if(language, is_language_available(language, cdnLanguages),
              get_latest_version(cdnVersions))

new_if(version, language, version_result, language_result) ==
    IF version_result.st = "panic" THEN Unwound
    ELSE IF language_result.st = "panic" THEN Unwound
    ELSE IF (language_result.st = "ok" /\ language_result.v = TRUE)
            /\ (version_result.st = "ok" /\ version_result.v = TRUE)
         THEN Returned(Some([version |-> version, language |-> language]))
         ELSE Returned(None)

UtilsApi_new(version, language, cdnVersions, cdnLanguages) ==
    new_if(version, language, is_version_available(version, cdnVersions),
           is_language_available(language, cdnLanguages))

\* if result.is_ok() { return result.unwrap(); } Vec::new()
VecIfOk(result) ==
    IF result.st = "panic" THEN Unwound
    ELSE IF result.st = "ok" THEN Returned(result.v)
    ELSE Returned(<< >>)

\* get_all_champions(..).unwrap() in place of the is_ok() test.
UtilsApi_get_all_champions_unwrap(self, cdn) ==
    IF get_all_champions(self.version, self.language, cdn).st = "ok"
    THEN Returned(get_all_champions(self.version, self.language, cdn).v)
    ELSE Unwound

UtilsApi_get_all_champions(self, cdn) ==
    VecIfOk(get_all_champions(self.version, self.language, cdn))

UtilsApi_get_champion(self, name, cdn) ==
    SomeIfOk(get_champion(self.version, self.language, name, cdn))

UtilsApi_get_rune(self, name, cdn) ==
    SomeIfOk(get_rune(self.version, self.language, name, cdn))

UtilsApi_get_all_runes(self, cdn) ==
    VecIfOk(get_all_runes(self.version, self.language, cdn))

(***************************************************************************)
(* The documents the CDN is tried with.                                    *)
(***************************************************************************)
EmptyObject == [key \in {} |-> JNull]

Without(obj, key) == JObj([k \in DOMAIN obj.v \ {key} |-> obj.v[k]])

ImageJson(full) ==
    JObj([full |-> JStr(full), sprite |-> JStr("champion0.png"),
          group |-> JStr("champion"), x |-> JNum(0), y |-> JNum(48),
          w |-> JNum(48), h |-> JNum(48)])

SpellJson(id) ==
    JObj([id |-> JStr(id), name |-> JStr("Flair"), description |-> JStr("d"),
          tooltip |-> JStr("t"),
          leveltip |-> JObj([label |-> JArr(<<JStr("Damage")>>),
                             effect |-> JArr(<<JStr("e1")>>)]),
          maxrank |-> JNum(5), cooldown |-> JArr(<<JNum(6), JFrac(5)>>),
          cooldownBurn |-> JStr("6/5.5"), cost |-> JArr(<<JNum(30)>>),
          costBurn |-> JStr("30"),
          effect |-> JArr(<<JNull, JArr(<<JNum(0), JFrac(1)>>)>>),
          effectBurn |-> JArr(<<JNull, JStr("0")>>), costType |-> JStr("Mana"),
          maxammo |-> JStr("-1"), range |-> JArr(<<JNum(950)>>),
          rangeBurn |-> JStr("950"), image |-> ImageJson("Flair.png"),
          resource |-> JStr("r"), datavalues |-> JObj(EmptyObject)])

StatsJson ==
    JObj([hp |-> JNum(630), hpperlevel |-> JNum(108), mp |-> JNum(349),
          mpperlevel |-> JNum(38), movespeed |-> JNum(335), armor |-> JNum(26),
          armorperlevel |-> JFrac(4), spellblock |-> JNum(30),
          spellblockperlevel |-> JFrac(1), attackrange |-> JNum(500),
          hpregen |-> JFrac(3), hpregenperlevel |-> JFrac(0), mpregen |-> JFrac(8),
          mpregenperlevel |-> JFrac(0), crit |-> JNum(0), critperlevel |-> JNum(0),
          attackdamage |-> JNum(57), attackdamageperlevel |-> JNum(3),
          attackspeedperlevel |-> JFrac(3), attackspeed |-> JFrac(0)])

ChampionJson(id, key, name) ==
    JObj([id |-> JStr(id), key |-> JStr(key), name |-> JStr(name),
          title |-> JStr("the title"), image |-> ImageJson(id),
          skins |-> JArr(<<JObj([id |-> JStr(key), num |-> JNum(0),
                                 name |-> JStr("default"),
                                 chromas |-> JBool(FALSE)])>>),
          lore |-> JStr("lore"), blurb |-> JStr("blurb"),
          allytips |-> JArr(<<JStr("tip")>>), enemytips |-> JArr(<< >>),
          tags |-> JArr(<<JStr("Marksman")>>), partype |-> JStr("Mana"),
          info |-> JObj([attack |-> JNum(8), defense |-> JNum(5),
                         magic |-> JNum(3), difficulty |-> JNum(6)]),
          stats |-> StatsJson, spells |-> JArr(<<SpellJson(id)>>),
          passive |-> JObj([name |-> JStr("Impulse"), description |-> JStr("p"),
                            image |-> ImageJson("P.png")]),
          recommended |-> JArr(<< >>)])

\* The keyed collection stores a champion under its id, which is not always
\* its display name.
ChampKeys == {"Aatrox", "MonkeyKing", "Samira"}

ChampionEntry(key, kind) ==
    LET good == CASE key = "Aatrox" -> ChampionJson("Aatrox", "266", "Aatrox")
                  [] key = "MonkeyKing" -> ChampionJson("MonkeyKing", "62", "Wukong")
                  [] key = "Samira" -> ChampionJson("Samira", "360", "Samira")
    IN  IF kind = "good" THEN good ELSE Without(good, "title")

ChampionPicks == [ChampKeys -> {"absent", "good", "broken"}]

ChampionShapes == {"keyed", "array", "no_data", "data_array"}

ChampionDocument(shape, pick) ==
    CASE shape = "keyed" ->
            JObj([type |-> JStr("champion"),
                  data |-> JObj([key \in {k \in ChampKeys : pick[k] # "absent"} |->
                                   ChampionEntry(key, pick[key])])])
      [] shape = "array" -> JArr(<< >>)
      [] shape = "no_data" -> JObj([type |-> JStr("champion")])
      [] shape = "data_array" -> JObj([type |-> JStr("champion"), data |-> JArr(<< >>)])

ChampionNames == {"Aatrox", "MonkeyKing", "Wukong", "Samira", "RqndomChampion"}

RuneJson(id, key, name) ==
    JObj([id |-> JNum(id), key |-> JStr(key), icon |-> JStr("icon.png"),
          name |-> JStr(name),
          slots |-> JArr(<<JObj([runes |-> JArr(<<
                        JObj([id |-> JNum(id + 1), key |-> JStr("Keystone"),
                              icon |-> JStr("k.png"), name |-> JStr("Keystone"),
                              shortDesc |-> JStr("s"), longDesc |-> JStr("l")])>>)])>>)])

\* The elements rune lists are built from: three well-formed trees, two of
\* them under the same name; a tree without its slots; an element without a
\* name; one whose name is a number; one that is no object.
RuneElements ==
    << RuneJson(8100, "Domination", "Domination"),
       RuneJson(8300, "Inspiration", "Inspiration"),
       RuneJson(8199, "DominationOld", "Domination"),
       Without(RuneJson(8100, "Domination", "Domination"), "slots"),
       JObj([id |-> JNum(8400)]),
       JObj([id |-> JNum(8400), name |-> JNum(8400)]),
       JNum(8400) >>

MaxRunes == 2

RuneLists == UNION {[1..n -> 1..Len(RuneElements)] : n \in 0..MaxRunes}

RuneShapes == {"list", "object"}

RuneDocument(shape, list) ==
    IF shape = "list" THEN JArr([i \in 1..Len(list) |-> RuneElements[list[i]]])
    ELSE JObj([runes |-> JArr(<< >>)])

RuneNames == {"Domination", "Inspiration", "RqndomRune"}

\* Manifests: lists of at most MaxManifest elements, or no list at all.
VersionElements == <<JStr("13.1.1"), JStr("12.12.1"), JNum(13)>>

LanguageElements == <<JStr("en_US"), JStr("fr_FR")>>

MaxManifest == 2

ManifestLists(elements) ==
    UNION {[1..n -> 1..Len(elements)] : n \in 0..MaxManifest}

ManifestShapes == {"list", "object"}

ManifestDocument(elements, shape, list) ==
    IF shape = "list" THEN JArr([i \in 1..Len(list) |-> elements[list[i]]])
    ELSE JObj([message |-> JStr("moved")])

VersionInputs == {"13.1.1", "12.12.1", "0.0.0"}

LanguageInputs == {"en_US", "xx_XX"}

\* A shelf holding the given documents; the documents a call does not ask
\* for are the empty ones.
Shelf(versions, languages, champions, runes) ==
    [versions |-> versions, languages |-> languages, champions |-> champions,
     runes |-> runes]

NoManifest == JArr(<< >>)

NoChampions == JObj([data |-> JObj(EmptyObject)])

NoRunes == JArr(<< >>)

(***************************************************************************)
(* The caller's calls on UtilsApi.  A GET that fails before the CDN        *)
(* answers is tried with the empty documents only.                         *)
(***************************************************************************)
Cdn(shelf, weather) == [shelf |-> shelf, weather |-> weather]

ManifestShelf(vshape, vlist, lshape, llist) ==
    Shelf(ManifestDocument(VersionElements, vshape, vlist),
          ManifestDocument(LanguageElements, lshape, llist), NoChampions, NoRunes)

\* The exchanges of a constructor: the second probe is sent unless the first
\* one panicked.
Probes(firstReq, firstCdn, firstResult, secondReq, secondCdn) ==
    IF firstResult.st = "panic"
    THEN <<Exchange(firstReq, CdnGet(firstReq, firstCdn))>>
    ELSE <<Exchange(firstReq, CdnGet(firstReq, firstCdn)),
           Exchange(secondReq, CdnGet(secondReq, secondCdn))>>

Constructed(op, args, gets, out) ==
    /\ call' = CallRecord(op, args, gets, out)
    /\ utils' = IF out.st = "returned" THEN out.result ELSE utils

NewUtils ==
    /\ call.op = "idle"
    /\ \E version \in VersionInputs, language \in LanguageInputs,
          vshape \in ManifestShapes, vlist \in ManifestLists(VersionElements),
          lshape \in ManifestShapes, llist \in ManifestLists(LanguageElements),
          vweather \in CdnWeather, lweather \in CdnWeather :
          /\ (vweather # "up" \/ vshape # "list") => vlist = << >>
          /\ (lweather # "up" \/ lshape # "list") => llist = << >>
          /\ (vweather = "up" /\ vshape # "list")
                => (lweather = "up" /\ lshape = "list" /\ llist = << >>)
          /\ Constructed("UtilsApi::new",
                [version |-> version, language |-> language],
                Probes(versions_request,
                       Cdn(ManifestShelf(vshape, vlist, lshape, llist), vweather),
                       is_version_available(version,
                           Cdn(ManifestShelf(vshape, vlist, lshape, llist), vweather)),
                       languages_request,
                       Cdn(ManifestShelf(vshape, vlist, lshape, llist), lweather)),
                UtilsApi_new(version, language,
                       Cdn(ManifestShelf(vshape, vlist, lshape, llist), vweather),
                       Cdn(ManifestShelf(vshape, vlist, lshape, llist), lweather)))
    /\ UNCHANGED riot

LatestUtils ==
    /\ call.op = "idle"
    /\ \E language \in LanguageInputs,
          vshape \in ManifestShapes, vlist \in ManifestLists(VersionElements),
          lshape \in ManifestShapes, llist \in ManifestLists(LanguageElements),
          vweather \in CdnWeather, lweather \in CdnWeather :
          /\ (vweather # "up" \/ vshape # "list") => vlist = << >>
          /\ (lweather # "up" \/ lshape # "list") => llist = << >>
          /\ (lweather = "up" /\ lshape # "list")
                => (vweather = "up" /\ vshape = "list" /\ vlist = << >>)
          /\ Constructed("UtilsApi::latest", [language |-> language],
                Probes(languages_request,
                       Cdn(ManifestShelf(vshape, vlist, lshape, llist), lweather),
                       is_language_available(language,
                           Cdn(ManifestShelf(vshape, vlist, lshape, llist), lweather)),
                       versions_request,
                       Cdn(ManifestShelf(vshape, vlist, lshape, llist), vweather)),
                UtilsApi_latest(language,
                       Cdn(ManifestShelf(vshape, vlist, lshape, llist), lweather),
                       Cdn(ManifestShelf(vshape, vlist, lshape, llist), vweather)))
    /\ UNCHANGED riot

DefaultUtils ==
    /\ call.op = "idle"
    /\ call' = CallRecord("UtilsApi::default", << >>, << >>,
                          Returned(UtilsApi_default))
    /\ utils' = Some(UtilsApi_default)
    /\ UNCHANGED riot

ChampionCdn(shape, pick, weather) ==
    Cdn(Shelf(NoManifest, NoManifest, ChampionDocument(shape, pick), NoRunes), weather)

RuneCdn(shape, list, weather) ==
    Cdn(Shelf(NoManifest, NoManifest, NoChampions, RuneDocument(shape, list)), weather)

\* get_all_champions, were the fetch to leave its client without a language.
GetAllChampionsForgetful ==
    /\ call.op = "idle"
    /\ utils.some
    /\ \E shape \in ChampionShapes, pick \in ChampionPicks, weather \in CdnWeather :
          /\ (weather # "up" \/ shape # "keyed")
                => \A key \in ChampKeys : pick[key] = "absent"
          /\ call' = CallRecord("UtilsApi::get_all_champions", << >>,
                <<Exchange(get_all_champions_request(utils.v.version, utils.v.language),
                           CdnGet(get_all_champions_request(utils.v.version,
                                                            utils.v.language),
                                  ChampionCdn(shape, pick, weather)))>>,
                UtilsApi_get_all_champions(utils.v, ChampionCdn(shape, pick, weather)))
    /\ utils' = Some([version |-> utils.v.version, language |-> ""])
    /\ UNCHANGED riot

GetAllChampions ==
    /\ call.op = "idle"
    /\ utils.some
    /\ \E shape \in ChampionShapes, pick \in ChampionPicks, weather \in CdnWeather :
          /\ (weather # "up" \/ shape # "keyed")
                => \A key \in ChampKeys : pick[key] = "absent"
          /\ call' = CallRecord("UtilsApi::get_all_champions", << >>,
                <<Exchange(get_all_champions_request(utils.v.version, utils.v.language),
                           CdnGet(get_all_champions_request(utils.v.version,
                                                            utils.v.language),
                                  ChampionCdn(shape, pick, weather)))>>,
                UtilsApi_get_all_champions(utils.v, ChampionCdn(shape, pick, weather)))
    /\ UNCHANGED <<riot, utils>>

GetChampion ==
    /\ call.op = "idle"
    /\ utils.some
    /\ \E name \in ChampionNames,
          shape \in ChampionShapes, pick \in ChampionPicks, weather \in CdnWeather :
          /\ (weather # "up" \/ shape # "keyed")
                => \A key \in ChampKeys : pick[key] = "absent"
          /\ call' = CallRecord("UtilsApi::get_champion", [name |-> name],
                <<Exchange(get_all_champions_request(utils.v.version, utils.v.language),
                           CdnGet(get_all_champions_request(utils.v.version,
                                                            utils.v.language),
                                  ChampionCdn(shape, pick, weather)))>>,
                UtilsApi_get_champion(utils.v, name, ChampionCdn(shape, pick, weather)))
    /\ UNCHANGED <<riot, utils>>

GetAllRunes ==
    /\ call.op = "idle"
    /\ utils.some
    /\ \E shape \in RuneShapes, list \in RuneLists, weather \in CdnWeather :
          /\ (weather # "up" \/ shape # "list") => list = << >>
          /\ call' = CallRecord("UtilsApi::get_all_runes", << >>,
                <<Exchange(get_all_runes_request(utils.v.version, utils.v.language),
                           CdnGet(get_all_runes_request(utils.v.version,
                                                        utils.v.language),
                                  RuneCdn(shape, list, weather)))>>,
                UtilsApi_get_all_runes(utils.v, RuneCdn(shape, list, weather)))
    /\ UNCHANGED <<riot, utils>>

\* get_rune, were it to send its GET once more after one that failed.
GetRuneRetrying ==
    /\ call.op = "idle"
    /\ utils.some
    /\ \E name \in RuneNames,
          shape \in RuneShapes, list \in RuneLists, weather \in CdnWeather :
          /\ (weather # "up" \/ shape # "list") => list = << >>
          /\ call' = CallRecord("UtilsApi::get_rune", [name |-> name],
                IF weather = "up"
                THEN <<Exchange(get_all_runes_request(utils.v.version,
                                                      utils.v.language),
                                CdnGet(get_all_runes_request(utils.v.version,
                                                             utils.v.language),
                                       RuneCdn(shape, list, weather)))>>
                ELSE <<Exchange(get_all_runes_request(utils.v.version,
                                                      utils.v.language),
                                CdnGet(get_all_runes_request(utils.v.version,
                                                             utils.v.language),
                                       RuneCdn(shape, list, weather))),
                       Exchange(get_all_runes_request(utils.v.version,
                                                      utils.v.language),
                                CdnGet(get_all_runes_request(utils.v.version,
                                                             utils.v.language),
                                       RuneCdn(shape, list, "up")))>>,
                UtilsApi_get_rune(utils.v, name, RuneCdn(shape, list, "up")))
    /\ UNCHANGED <<riot, utils>>

GetRune ==
    /\ call.op = "idle"
    /\ utils.some
    /\ \E name \in RuneNames,
          shape \in RuneShapes, list \in RuneLists, weather \in CdnWeather :
          /\ (weather # "up" \/ shape # "list") => list = << >>
          /\ call' = CallRecord("UtilsApi::get_rune", [name |-> name],
                <<Exchange(get_all_runes_request(utils.v.version, utils.v.language),
                           CdnGet(get_all_runes_request(utils.v.version,
                                                        utils.v.language),
                                  RuneCdn(shape, list, weather)))>>,
                UtilsApi_get_rune(utils.v, name, RuneCdn(shape, list, weather)))
    /\ UNCHANGED <<riot, utils>>

(***************************************************************************)
(* Two fetches in a row.  The caller that holds the catalog a fetch has     *)
(* returned fetches it again on the same client before doing anything      *)
(* else; the record of the second call keeps the first one.  The CDN holds  *)
(* the document it answered the first fetch with, or has lost its entries   *)
(* in between.                                                              *)
(***************************************************************************)
SecondCall(first, record) ==
    IF record.st = "panic"
    THEN [op |-> record.op, args |-> record.args, gets |-> record.gets,
          st |-> "panic", first |-> first]
    ELSE [op |-> record.op, args |-> record.args, gets |-> record.gets,
          st |-> "returned", result |-> record.result, first |-> first]

Answered(x) == x.resp.kind = "ok" /\ x.resp.json

NoPick == [key \in ChampKeys |-> "absent"]

AllChampionsAgain(cdn) ==
    call' = SecondCall(call,
                CallRecord("UtilsApi::get_all_champions", << >>,
                    <<Exchange(get_all_champions_request(utils.v.version,
                                                         utils.v.language),
                               CdnGet(get_all_champions_request(utils.v.version,
                                                                utils.v.language),
                                      cdn))>>,
                    UtilsApi_get_all_champions(utils.v, cdn)))

GetAllChampionsAgain ==
    /\ call.op = "UtilsApi::get_all_champions"
    /\ call.st = "returned"
    /\ "first" \notin DOMAIN call
    /\ utils.some
    /\ \/ /\ Answered(call.gets[1])
          /\ AllChampionsAgain(Cdn(Shelf(NoManifest, NoManifest,
                                         call.gets[1].resp.value, NoRunes), "up"))
       \/ \E shape \in ChampionShapes, weather \in CdnWeather :
             AllChampionsAgain(ChampionCdn(shape, NoPick, weather))
    /\ UNCHANGED <<riot, utils>>

AllRunesAgain(cdn) ==
    call' = SecondCall(call,
                CallRecord("UtilsApi::get_all_runes", << >>,
                    <<Exchange(get_all_runes_request(utils.v.version,
                                                     utils.v.language),
                               CdnGet(get_all_runes_request(utils.v.version,
                                                            utils.v.language),
                                      cdn))>>,
                    UtilsApi_get_all_runes(utils.v, cdn)))

GetAllRunesAgain ==
    /\ call.op = "UtilsApi::get_all_runes"
    /\ call.st = "returned"
    /\ "first" \notin DOMAIN call
    /\ utils.some
    /\ \/ /\ Answered(call.gets[1])
          /\ AllRunesAgain(Cdn(Shelf(NoManifest, NoManifest, NoChampions,
                                     call.gets[1].resp.value), "up"))
       \/ \E shape \in RuneShapes, weather \in CdnWeather :
             AllRunesAgain(RuneCdn(shape, << >>, weather))
    /\ UNCHANGED <<riot, utils>>

NextUtils ==
    \/ NewUtils
    \/ LatestUtils
    \/ DefaultUtils
    \/ GetAllChampions
    \/ GetChampion
    \/ GetAllRunes
    \/ GetRune
    \/ GetAllChampionsAgain
    \/ GetAllRunesAgain
    \/ Resume

SpecUtils == Init /\ [][NextUtils]_vars

Next ==
    \/ NewRiot
    \/ NewUncheckedRiot
    \/ GetChampionRotations
    \/ GetSummoner
    \/ GetSummonerByAccount
    \/ GetSummonerByName
    \/ GetSummonerByPuuid
    \/ GetSummonerByFilter
    \/ NewUtils
    \/ LatestUtils
    \/ DefaultUtils
    \/ GetAllChampions
    \/ GetChampion
    \/ GetAllRunes
    \/ GetRune
    \/ GetAllChampionsAgain
    \/ GetAllRunesAgain
    \/ Resume

Spec == Init /\ [][Next]_vars

(***************************************************************************)
(* Properties.  They read the record of the call just made.                *)
(***************************************************************************)
SummonerLookups ==
    {"RiotApi::get_summoner", "RiotApi::get_summoner_by_account",
     "RiotApi::get_summoner_by_name", "RiotApi::get_summoner_by_puuid"}

RotationFetch == "RiotApi::get_champion_rotations"

\* The GET ended in a transport failure: no connection or an error status.
TransportFailed(x) == x.resp.kind \in {"transport", "status"}

\* The GET was answered 2xx with a JSON body that does not decode as ty.
Undecodable(x, ty) ==
    /\ x.resp.kind = "ok"
    /\ x.resp.json
    /\ ~from_value(ty, x.resp.value).ok

\* The GET was answered 2xx with a JSON body that decodes as ty.
Decodable(x, ty) ==
    /\ x.resp.kind = "ok"
    /\ x.resp.json
    /\ from_value(ty, x.resp.value).ok

TargetOf(op) ==
    IF op = RotationFetch THEN TStruct("ChampionInfo") ELSE TStruct("Summoner")

\* C1: when the upstream answers 2xx with a JSON body that does not decode
\* into the target record, get_champion_rotations and the four summoner
\* lookups return None: the call returns to its caller, and with no record.
C1_UndecodableBodyIsNone ==
    (/\ call.op \in SummonerLookups \cup {RotationFetch}
     /\ Undecodable(call.gets[1], TargetOf(call.op)))
        => (call.st = "returned" /\ call.result = None)

OptionLookups ==
    SummonerLookups \cup {RotationFetch, "UtilsApi::get_champion", "UtilsApi::get_rune"}

VecLookups == {"UtilsApi::get_all_champions", "UtilsApi::get_all_runes"}

\* C2: a transport failure of the GET of a public lookup (no connection, or
\* an error status) is never propagated: the lookups that return an Option
\* return None, get_all_champions and get_all_runes return an empty Vec.
C2_TransportFailureIsAbsent ==
    /\ (call.op \in OptionLookups /\ TransportFailed(call.gets[1]))
          => (call.st = "returned" /\ call.result = None)
    /\ (call.op \in VecLookups /\ TransportFailed(call.gets[1]))
          => (call.st = "returned" /\ call.result = << >>)

C2_Witness ==
    /\ call.op = "UtilsApi::get_all_champions"
    /\ call.gets[1].resp.kind = "status"
    /\ call.st = "returned"
    /\ call.result = << >>

FilterLookupOp == "RiotApi::get_summoner_by_filter"

Supplied(filter) == SelectSeq(FilterOrder, LAMBDA field : filter[field].some)

\* The lookup of one field succeeded: the upstream answered with a record.
FieldFound(x) == Decodable(x, TStruct("Summoner"))

\* The fallback chain, of a filter-driven lookup that has ended.
FilterFallback ==
    LET supplied == Supplied(call.args.filter)
        n == Len(call.gets)
    IN  /\ n <= Len(supplied)
        /\ \A i \in 1..n : call.gets[i].field = supplied[i]
        /\ \A i \in 1..(n - 1) : ~FieldFound(call.gets[i])
        /\ call.st = "returned"
        /\ (call.result = None)
              <=> (n = Len(supplied) /\ \A i \in 1..n : ~FieldFound(call.gets[i]))
        /\ call.result.some
              => (/\ FieldFound(call.gets[n])
                  /\ call.result.v
                        = from_value(TStruct("Summoner"), call.gets[n].resp.value).v)

\* C3: a lookup driven by a SummonerFilter tries the supplied fields in the
\* order account_id, name, id, puuid, a field only after every earlier one
\* has failed; its result is the record of the first field whose lookup
\* succeeds, and it is None exactly when every supplied field has failed.
C3_FilterFallbackOrder == call.op = FilterLookupOp => FilterFallback

\* The same, of the filter-driven lookups that return to their caller.
FilterFallbackOfReturned ==
    (call.op = FilterLookupOp /\ call.st = "returned") => FilterFallback

\* An unknown account_id with a known name resolves via the name.
FilterFallsThrough ==
    /\ call.op = FilterLookupOp
    /\ Len(call.gets) = 2
    /\ call.gets[1].field = "account_id"
    /\ call.gets[1].resp.kind = "status"
    /\ call.gets[2].field = "name"
    /\ call.st = "returned"
    /\ call.result.some
    /\ call.result.v.name = call.args.filter.name.v

\* The champion document was fetched and is well formed: an object whose
\* "data" is an object of entries that all decode as Champion.
WellFormedChampions(x) ==
    /\ x.resp.kind = "ok"
    /\ x.resp.json
    /\ x.resp.value.t = "obj"
    /\ "data" \in DOMAIN x.resp.value.v
    /\ x.resp.value.v["data"].t = "obj"
    /\ \A key \in DOMAIN x.resp.value.v["data"].v :
          from_value(TStruct("Champion"), x.resp.value.v["data"].v[key]).ok

ChampionEntries(x) == x.resp.value.v["data"].v

\* The rune document was fetched and is well formed: a list of elements that
\* all decode as Rune.
WellFormedRunes(x) ==
    /\ x.resp.kind = "ok"
    /\ x.resp.json
    /\ x.resp.value.t = "arr"
    /\ \A i \in 1..Len(x.resp.value.v) :
          from_value(TStruct("Rune"), x.resp.value.v[i]).ok

RuneEntries(x) == x.resp.value.v

\* No entry of the document is stored under, or displays, the name.
NoChampionNamed(x, name) ==
    \A key \in DOMAIN ChampionEntries(x) :
        key # name /\ ChampionEntries(x)[key].v["name"].v # name

NoRuneNamed(x, name) ==
    \A i \in 1..Len(RuneEntries(x)) : RuneEntries(x)[i].v["name"].v # name

\* C4: when the catalog document is fetched and well formed but holds no
\* entry for the requested name, get_champion(name) and get_rune(name)
\* return None: the call returns to its caller, and with no record.
C4_AbsentNameIsNone ==
    /\ (/\ call.op = "UtilsApi::get_champion"
        /\ WellFormedChampions(call.gets[1])
        /\ NoChampionNamed(call.gets[1], call.args.name))
          => (call.st = "returned" /\ call.result = None)
    /\ (/\ call.op = "UtilsApi::get_rune"
        /\ WellFormedRunes(call.gets[1])
        /\ NoRuneNamed(call.gets[1], call.args.name))
          => (call.st = "returned" /\ call.result = None)

\* What get_all_champions (get_all_runes) returns on the same client against
\* the document the recorded GET was answered with.
ChampionCatalog(x) == VecIfOk(all_champions_of(into_json(x.resp)))

RuneCatalog(x) == VecIfOk(all_runes_of(into_json(x.resp)))

Lists(catalog, name) ==
    /\ catalog.st = "returned"
    /\ \E i \in 1..Len(catalog.result) : catalog.result[i].name = name

FoundIn(catalog, name) ==
    /\ call.st = "returned"
    /\ call.result.some
    /\ \E i \in 1..Len(catalog.result) :
          catalog.result[i].name = name /\ call.result.v = catalog.result[i]

\* The rune half of C5.
RuneFoundByListedName ==
    (/\ call.op = "UtilsApi::get_rune"
     /\ Lists(RuneCatalog(call.gets[1]), call.args.name))
        => FoundIn(RuneCatalog(call.gets[1]), call.args.name)

\* C5: for every record e that get_all_champions (get_all_runes) returns,
\* get_champion(e.name) (get_rune(e.name)) on the same client against the
\* same document returns Some(r), r a catalog entry whose display name is
\* e.name, whatever key the champion is stored under.
C5_FoundByListedName ==
    /\ (/\ call.op = "UtilsApi::get_champion"
        /\ Lists(ChampionCatalog(call.gets[1]), call.args.name))
          => FoundIn(ChampionCatalog(call.gets[1]), call.args.name)
    /\ RuneFoundByListedName

\* The positions of the elements of a JSON list whose "name" is the text.
Named(list, name) ==
    {i \in 1..Len(list) : /\ list[i].t = "obj"
                          /\ "name" \in DOMAIN list[i].v
                          /\ list[i].v["name"].t = "str"
                          /\ list[i].v["name"].v = name}

First(positions) == CHOOSE i \in positions : \A j \in positions : i <= j

Last(positions) == CHOOSE i \in positions : \A j \in positions : j <= i

\* The rune list was fetched and holds the requested name at least twice.
DuplicateRuneName ==
    /\ call.op = "UtilsApi::get_rune"
    /\ call.gets[1].resp.kind = "ok"
    /\ call.gets[1].resp.json
    /\ call.gets[1].resp.value.t = "arr"
    /\ Cardinality(Named(call.gets[1].resp.value.v, call.args.name)) >= 2

RuneAt(i) == from_value(TStruct("Rune"), call.gets[1].resp.value.v[i])

\* C6, as stated: when the rune list holds two or more elements named as
\* requested, get_rune returns the record decoded from the first of them in
\* list order.  Read of the well-formed lists, where every element decodes.
C6_FirstDuplicateWins ==
    (DuplicateRuneName /\ WellFormedRunes(call.gets[1]))
        => (/\ call.st = "returned"
            /\ call.result
                  = Some(RuneAt(First(Named(call.gets[1].resp.value.v,
                                            call.args.name))).v))

\* C6, amended: when the rune list holds two or more elements named as
\* requested, a record that get_rune returns is the one decoded from the
\* last of them in list order; and when every element of the list decodes,
\* get_rune does return that record.
C6_LastDuplicateWins ==
    /\ (DuplicateRuneName /\ call.st = "returned" /\ call.result.some)
          => call.result
                = Some(RuneAt(Last(Named(call.gets[1].resp.value.v,
                                         call.args.name))).v)
    /\ (DuplicateRuneName /\ WellFormedRunes(call.gets[1]))
          => (call.st = "returned" /\ call.result.some)

\* Two different trees under one name: the second one is returned.
C6_Witness ==
    /\ DuplicateRuneName
    /\ call.args.name = "Domination"
    /\ Len(call.gets[1].resp.value.v) = 2
    /\ call.gets[1].resp.value.v[1] = RuneJson(8100, "Domination", "Domination")
    /\ call.gets[1].resp.value.v[2] = RuneJson(8199, "DominationOld", "Domination")
    /\ call.st = "returned"
    /\ call.result.some
    /\ call.result.v.id = 8199

\* The GET was answered with a successful status.
Succeeded(x) == x.resp.kind = "ok"

\* C7: RiotApi::new(token) sends the platform-status probe with the token
\* and returns Some(client) exactly when the probe is answered with a
\* successful status, the client holding exactly the token; on a network
\* error or an error status it returns None and the caller has no client.
\* RiotApi::new_unchecked(token) always returns a client holding the token.
C7_ClientIffProbeSucceeds ==
    /\ call.op = "RiotApi::new"
          => (/\ call.st = "returned"
              /\ Len(call.gets) = 1
              /\ call.gets[1].req = check_token_request(call.args.token)
              /\ call.gets[1].req.token = Some(call.args.token)
              /\ call.result.some <=> Succeeded(call.gets[1])
              /\ call.result.some => call.result.v = [token |-> call.args.token]
              /\ TransportFailed(call.gets[1]) => call.result = None
              /\ riot = call.result)
    /\ call.op = "RiotApi::new_unchecked"
          => (/\ call.st = "returned"
              /\ call.gets = << >>
              /\ call.result = [token |-> call.args.token]
              /\ riot = Some(call.result))

\* A revoked token is refused by the probe: no client.
C7_Witness ==
    /\ call.op = "RiotApi::new"
    /\ call.args.token = "RGAPI-revoked"
    /\ call.gets[1].resp = Status(403)
    /\ call.st = "returned"
    /\ call.result = None
    /\ riot = None

\* A valid token passes the probe: a client holding it.
ValidTokenConstructs ==
    /\ call.op = "RiotApi::new"
    /\ call.gets[1].resp.kind = "ok"
    /\ call.result = Some([token |-> "RGAPI-valid"])

\* A manifest body that is a list of strings.
ListOfStrings(x) ==
    /\ x.resp.kind = "ok"
    /\ x.resp.json
    /\ x.resp.value.t = "arr"
    /\ \A i \in 1..Len(x.resp.value.v) : x.resp.value.v[i].t = "str"

\* The manifest probe failed: a transport failure, or a body that is not a
\* list of strings.
ProbeFailed(x) == ~ListOfStrings(x)

\* The probe was answered with a list of strings that lacks the text.
AbsentFrom(x, text) ==
    /\ ListOfStrings(x)
    /\ \A i \in 1..Len(x.resp.value.v) : x.resp.value.v[i].v # text

\* No latest version can be resolved from the probe's answer.
NoLatest(x) == ProbeFailed(x) \/ Len(x.resp.value.v) = 0

FailsConstruction == call.st = "returned" /\ call.result = None

\* C8: UtilsApi::new(version, language) returns None when a manifest probe
\* fails (transport failure, or a body that is not a list of strings), when
\* version is not in versions.json or language not in languages.json;
\* UtilsApi::latest(language) returns None when a probe fails, when language
\* is not in languages.json or when no latest version can be resolved.
C8_ConstructionFailsOnProbe ==
    /\ call.op = "UtilsApi::new"
          => (/\ ProbeFailed(call.gets[1]) => FailsConstruction
              /\ AbsentFrom(call.gets[1], call.args.version) => FailsConstruction
              /\ (Len(call.gets) = 2 /\ ProbeFailed(call.gets[2]))
                    => FailsConstruction
              /\ (Len(call.gets) = 2 /\ AbsentFrom(call.gets[2], call.args.language))
                    => FailsConstruction)
    /\ call.op = "UtilsApi::latest"
          => (/\ ProbeFailed(call.gets[1]) => FailsConstruction
              /\ AbsentFrom(call.gets[1], call.args.language) => FailsConstruction
              /\ (Len(call.gets) = 2 /\ NoLatest(call.gets[2]))
                    => FailsConstruction)

\* Of the constructions that return: None when a probe failed in transport
\* or the value is absent from its manifest.
ReturnedConstructionFailsOnProbe ==
    /\ (call.op = "UtilsApi::new" /\ call.st = "returned")
          => (/\ ~Succeeded(call.gets[1]) => call.result = None
              /\ AbsentFrom(call.gets[1], call.args.version) => call.result = None
              /\ ~Succeeded(call.gets[2]) => call.result = None
              /\ AbsentFrom(call.gets[2], call.args.language) => call.result = None)
    /\ (call.op = "UtilsApi::latest" /\ call.st = "returned")
          => (/\ ~Succeeded(call.gets[1]) => call.result = None
              /\ AbsentFrom(call.gets[1], call.args.language) => call.result = None
              /\ ~Succeeded(call.gets[2]) => call.result = None)

\* C9: whenever UtilsApi::latest(language) returns a client, the client's
\* version is the first-listed entry of the version manifest that
\* /api/versions.json answered with during the construction, and its
\* language is the language supplied.
C9_LatestIsFirstListed ==
    (call.op = "UtilsApi::latest" /\ call.st = "returned" /\ call.result.some)
        => (/\ Len(call.gets) = 2
            /\ call.gets[2].req = versions_request
            /\ call.gets[2].req.path = <<"api", "versions.json">>
            /\ Succeeded(call.gets[2])
            /\ call.gets[2].resp.json
            /\ call.gets[2].resp.value.t = "arr"
            /\ Len(call.gets[2].resp.value.v) >= 1
            /\ call.gets[2].resp.value.v[1] = JStr(call.result.v.version)
            /\ call.result.v.language = call.args.language
            /\ utils = call.result)

\* A manifest listing 12.12.1 before 13.1.1: the client is for 12.12.1.
C9_Witness ==
    /\ call.op = "UtilsApi::latest"
    /\ call.st = "returned"
    /\ call.result.some
    /\ call.gets[2].resp.value.v = <<JStr("12.12.1"), JStr("13.1.1")>>
    /\ call.result.v = [version |-> "12.12.1", language |-> call.args.language]

\* The path template of each player lookup, after /lol/summoner/v4/summoners.
TemplateOf(op) ==
    CASE op = "RiotApi::get_summoner" -> << >>
      [] op = "RiotApi::get_summoner_by_account" -> <<"by-account">>
      [] op = "RiotApi::get_summoner_by_name" -> <<"by-name">>
      [] op = "RiotApi::get_summoner_by_puuid" -> <<"by-puuid">>

\* The field of the upstream record each lookup goes by, and the field of
\* Summoner it is decoded into.
UpstreamFieldOf(op) ==
    CASE op = "RiotApi::get_summoner" -> "id"
      [] op = "RiotApi::get_summoner_by_account" -> "accountId"
      [] op = "RiotApi::get_summoner_by_name" -> "name"
      [] op = "RiotApi::get_summoner_by_puuid" -> "puuid"

RecordFieldOf(op) ==
    CASE op = "RiotApi::get_summoner" -> "id"
      [] op = "RiotApi::get_summoner_by_account" -> "account_id"
      [] op = "RiotApi::get_summoner_by_name" -> "name"
      [] op = "RiotApi::get_summoner_by_puuid" -> "puuid"

ShardOf(platform) == ShardSummoners(get_platform_url(platform).host)

\* The records the shard of the call holds under the caller's identifier.
KnownRecords ==
    {i \in 1..Len(ShardOf(call.args.platform)) :
        ShardOf(call.args.platform)[i].v[UpstreamFieldOf(call.op)]
            = JStr(call.args.ident)}

\* A player lookup with an identifier the upstream knows under the field of
\* the lookup, answered by the upstream itself.
KnownLookup ==
    /\ call.op \in SummonerLookups
    /\ KnownRecords # {}
    /\ call.gets[1].req.token.v \in ValidTokens
    /\ call.gets[1].resp = RiotServe(call.gets[1].req)

\* The record as the upstream holds it, field for field.
Unmodified(record, json) ==
    /\ record.account_id = json.v["accountId"].v
    /\ record.profile_icon_id = json.v["profileIconId"].v
    /\ record.revision_date = json.v["revisionDate"].v
    /\ record.name = json.v["name"].v
    /\ record.id = json.v["id"].v
    /\ record.puuid = json.v["puuid"].v
    /\ record.summoner_level = json.v["summonerLevel"].v
    /\ DOMAIN record = {"account_id", "profile_icon_id", "revision_date", "name",
                        "id", "puuid", "summoner_level"}

\* C10: each of the four player lookups sends its one GET to its own path
\* template (summoners/{id}, by-account/{id}, by-name/{name},
\* by-puuid/{puuid}) on the platform's host with the caller's identifier
\* pasted in, and for an identifier the upstream knows under that field it
\* returns the upstream record unmodified, the record's id, account_id, name
\* or puuid being the identifier passed in.
C10_LookupEchoesIdentifier ==
    /\ call.op \in SummonerLookups
          => (/\ Len(call.gets) = 1
              /\ call.gets[1].req.host = get_platform_url(call.args.platform).host
              /\ call.gets[1].req.path
                    = SummonersPath \o TemplateOf(call.op) \o Segments(call.args.ident))
    /\ KnownLookup
          => (/\ call.gets[1].req.path
                    = SummonersPath \o TemplateOf(call.op) \o <<call.args.ident>>
              /\ call.st = "returned"
              /\ call.result.some
              /\ call.result.v[RecordFieldOf(call.op)] = call.args.ident
              /\ \E i \in KnownRecords :
                    Unmodified(call.result.v, ShardOf(call.args.platform)[i]))

\* RqndomHax looked up by account id on EUW1.
C10_Witness ==
    /\ KnownLookup
    /\ call.op = "RiotApi::get_summoner_by_account"
    /\ call.args = [platform |-> "EUW1", ident |-> "acc-rqndom"]
    /\ call.st = "returned"
    /\ call.result.some
    /\ call.result.v.account_id = "acc-rqndom"
    /\ call.result.v.name = "RqndomHax"

\* The call in hand is the second of two full-catalog fetches in a row.
SuccessiveFetch == call.op \in VecLookups /\ "first" \in DOMAIN call

\* Both GETs were answered, and with the same document.
SameDocument(x, y) ==
    /\ Answered(x)
    /\ Answered(y)
    /\ x.resp.value.t = y.resp.value.t
    /\ x.resp.value = y.resp.value

ChangedDocumentChangesCatalog ==
    /\ SuccessiveFetch
    /\ Answered(call.gets[1])
    /\ call.st = "returned"
    /\ Len(call.first.result) = 2
    /\ Len(call.result) = 0

\* The GET was answered with a keyed champion collection / with a rune list.
KeyedCollection(x) ==
    /\ Answered(x)
    /\ x.resp.value.t = "obj"
    /\ "data" \in DOMAIN x.resp.value.v
    /\ x.resp.value.v["data"].t = "obj"

RuneList(x) == Answered(x) /\ x.resp.value.t = "arr"

\* The entries of the upstream collection in its iteration order.
CollectionOf(op, x) ==
    IF op = "UtilsApi::get_all_champions"
    THEN Values(x.resp.value.v["data"].v)
    ELSE x.resp.value.v

RecordOf(op) ==
    IF op = "UtilsApi::get_all_champions" THEN TStruct("Champion") ELSE TStruct("Rune")

Fetched(op, x) ==
    IF op = "UtilsApi::get_all_champions" THEN KeyedCollection(x) ELSE RuneList(x)

\* One decoded record for every entry, in the order of the entries.
WholeCatalog(result, entries, ty) ==
    /\ Len(result) = Len(entries)
    /\ \A i \in 1..Len(entries) :
          /\ from_value(ty, entries[i]).ok
          /\ result[i] = from_value(ty, entries[i]).v

SomeEntryUndecodable(entries, ty) ==
    \E i \in 1..Len(entries) : ~from_value(ty, entries[i]).ok

\* C12: a sequence that get_all_champions (get_all_runes) returns non-empty
\* holds exactly one decoded record for every entry of the upstream
\* collection, in the collection's iteration order; when an entry does not
\* decode the whole call fails, and no sequence is returned.
C12_NoPartialCatalog ==
    call.op \in VecLookups
        => (/\ (call.st = "returned" /\ call.result # << >>)
                  => (/\ Fetched(call.op, call.gets[1])
                      /\ WholeCatalog(call.result,
                                      CollectionOf(call.op, call.gets[1]),
                                      RecordOf(call.op)))
            /\ (/\ Fetched(call.op, call.gets[1])
                /\ SomeEntryUndecodable(CollectionOf(call.op, call.gets[1]),
                                        RecordOf(call.op)))
                  => call.st = "panic")

\* Three champions stored under three keys: three records, in key order.
C12_Witness ==
    /\ call.op = "UtilsApi::get_all_champions"
    /\ KeyedCollection(call.gets[1])
    /\ DOMAIN call.gets[1].resp.value.v["data"].v = ChampKeys
    /\ call.st = "returned"
    /\ Len(call.result) = 3
    /\ call.result[1].id = "Aatrox"
    /\ call.result[2].id = "MonkeyKing"
    /\ call.result[3].id = "Samira"

\* A rune list with one element that does not decode: no sequence at all.
BrokenEntryFailsFetch ==
    /\ call.op = "UtilsApi::get_all_runes"
    /\ RuneList(call.gets[1])
    /\ Len(call.gets[1].resp.value.v) = 2
    /\ from_value(TStruct("Rune"), call.gets[1].resp.value.v[1]).ok
    /\ ~from_value(TStruct("Rune"), call.gets[1].resp.value.v[2]).ok
    /\ call.st = "panic"

\* The nine public lookups of the two clients.
PublicLookups == OptionLookups \cup VecLookups

RiotLookups == SummonerLookups \cup {RotationFetch}

\* What a step that makes a public lookup does: one GET, sent with what the
\* client holds, and the clients left as they were.
OneGetClientKept ==
    /\ Len(call'.gets) = 1
    /\ riot' = riot
    /\ utils' = utils
    /\ call'.op \in RiotLookups
          => (riot.some /\ call'.gets[1].req.token = Some(riot.v.token))
    /\ call'.op \notin RiotLookups
          => (/\ utils.some
              /\ call'.gets[1].req.path[2] = utils.v.version
              /\ call'.gets[1].req.path[4] = utils.v.language)

\* C13: every invocation of a public lookup of RiotApi or UtilsApi issues
\* exactly one HTTP GET whatever its outcome (a record, None, an empty Vec
\* or a panic): no retry after a failure, no second request; and the token,
\* or version and language, the client holds is the same after the call as
\* before it.
C13_OneGetPerCall ==
    [][call'.op \in PublicLookups => OneGetClientKept]_vars

\* A rune lookup whose GET failed in transport: one GET, None, no retry.
C13_Witness ==
    /\ call.op = "UtilsApi::get_rune"
    /\ Len(call.gets) = 1
    /\ call.gets[1].resp = Transport
    /\ call.st = "returned"
    /\ call.result = None
    /\ utils.some

====
